---- MODULE Spec2Model ----
(***************************************************************************)
(* A model of scripts/train_unet.py: the script that trains the denoising  *)
(* U-net of a latent diffusion model in the latent space of a frozen       *)
(* autoencoder.  The script is one straight-line program; every statement  *)
(* group of it is one action below, in program order.                      *)
(***************************************************************************)
EXTENDS Integers, Sequences, FiniteSets, TLC

(***************************************************************************)
(* Bound of the model: the largest number of files the image directory     *)
(* holds.                                                                  *)
(***************************************************************************)
MaxFiles == 80

(***************************************************************************)
(* IEEE-754 binary64 arithmetic, as far as lines 49-56 use it.  A natural  *)
(* number too large for one machine integer is a little-endian sequence of *)
(* NLimbs digits in base 2^16; a double is sign * m * 2^e with m such a    *)
(* number below 2^53 (at most 2^53 right after a rounding carry).          *)
(***************************************************************************)
LimbBits == 16

Base == 2 ^ LimbBits

NLimbs == 6

MantBits == 53

Limb(a, i) == IF i >= 1 /\ i <= NLimbs THEN a[i] ELSE 0

BigOfInt(n) == [i \in 1..NLimbs |->
                  IF i = 1 THEN n % Base
                  ELSE IF i = 2 THEN (n \div Base) % Base
                  ELSE IF i = 3 THEN (n \div Base) \div Base
                  ELSE 0]

IntOfBig(a) == a[1] + a[2] * Base

RECURSIVE MulCarry(_, _, _, _)
MulCarry(a, n, i, carry) ==
  IF i > NLimbs THEN <<>>
  ELSE LET t == a[i] * n + carry
       IN  <<t % Base>> \o MulCarry(a, n, i + 1, t \div Base)

BigMulSmall(a, n) == MulCarry(a, n, 1, 0)

RECURSIVE SubBorrow(_, _, _, _)
SubBorrow(a, b, i, borrow) ==
  IF i > NLimbs THEN <<>>
  ELSE LET t == a[i] - b[i] - borrow
       IN  IF t < 0 THEN <<t + Base>> \o SubBorrow(a, b, i + 1, 1)
           ELSE <<t>> \o SubBorrow(a, b, i + 1, 0)

BigSub(a, b) == SubBorrow(a, b, 1, 0)

RECURSIVE IncCarry(_, _, _)
IncCarry(a, i, carry) ==
  IF i > NLimbs THEN <<>>
  ELSE LET t == a[i] + carry
       IN  <<t % Base>> \o IncCarry(a, i + 1, t \div Base)

BigInc(a) == IncCarry(a, 1, 1)

BigShr(a, k) ==
  LET q == k \div LimbBits
      r == k % LimbBits
  IN  [i \in 1..NLimbs |->
         (Limb(a, i + q) \div (2 ^ r))
         + (Limb(a, i + q + 1) % (2 ^ r)) * (2 ^ (LimbBits - r))]

BigShl(a, k) ==
  LET q == k \div LimbBits
      r == k % LimbBits
  IN  [i \in 1..NLimbs |->
         (Limb(a, i - q) % (2 ^ (LimbBits - r))) * (2 ^ r)
         + (Limb(a, i - q - 1) \div (2 ^ (LimbBits - r)))]

BigBit(a, k) == (Limb(a, (k \div LimbBits) + 1) \div (2 ^ (k % LimbBits))) % 2

BigIsZero(a) == \A i \in 1..NLimbs : a[i] = 0

RECURSIVE IntBitLen(_)
IntBitLen(n) == IF n = 0 THEN 0 ELSE 1 + IntBitLen(n \div 2)

BigBitLen(a) ==
  IF BigIsZero(a) THEN 0
  ELSE LET top == CHOOSE i \in 1..NLimbs :
                     a[i] # 0 /\ \A j \in (i + 1)..NLimbs : a[j] = 0
       IN  (top - 1) * LimbBits + IntBitLen(a[top])

\* The low k bits of a are all zero.
BigLowZero(a, k) == BigIsZero(BigSub(a, BigShl(BigShr(a, k), k)))

\* sign * a * 2^e rounded to the nearest double, ties to even.
RoundToDouble(sign, a, e) ==
  LET len == BigBitLen(a)
      sh  == len - MantBits
  IN  IF sh <= 0 THEN [s |-> sign, m |-> a, e |-> e]
      ELSE LET q      == BigShr(a, sh)
               guard  == BigBit(a, sh - 1) = 1
               sticky == ~BigLowZero(a, sh - 1)
               odd    == BigBit(q, 0) = 1
           IN  [s |-> sign,
                m |-> IF guard /\ (sticky \/ odd) THEN BigInc(q) ELSE q,
                e |-> e + sh]

\* float(n) * x for an integer n: the exact product, rounded once.
FloatMulInt(n, x) ==
  LET neg == IF n < 0 THEN 0 - 1 ELSE 1
  IN  RoundToDouble(neg * x.s, BigMulSmall(x.m, neg * n), x.e)

\* x - y for doubles x >= y >= 0: the exact difference, rounded once.
FloatSub(x, y) ==
  LET e == IF x.e < y.e THEN x.e ELSE y.e
  IN  RoundToDouble(1, BigSub(BigShl(x.m, x.e - e), BigShl(y.m, y.e - e)), e)

\* Python's int(x): truncation toward zero (|x| < 2^31 here).
FloatToInt(x) ==
  x.s * IntOfBig(IF x.e >= 0 THEN BigShl(x.m, x.e) ELSE BigShr(x.m, 0 - x.e))

FloatOfInt(n) == [s |-> 1, m |-> BigOfInt(n), e |-> 0]

\* The literal 0.7: 0x1.6666666666666p-1.
train_split == [s |-> 1, m |-> <<26214, 26214, 26214, 22, 0, 0>>, e |-> 0 - 53]

\* The literal 0.2: 0x1.999999999999ap-3.
val_split == [s |-> 1, m |-> <<39322, 39321, 39321, 25, 0, 0>>, e |-> 0 - 55]

test_split == FloatSub(FloatSub(FloatOfInt(1), train_split), val_split)

batch_size == 16

listing_cap == 4000

(***************************************************************************)
(* Python list slicing: s[start:stop], s[:stop] and s[start:].  Lists are  *)
(* sequences, Python index i is position i + 1; a negative index counts    *)
(* from the end, and an index past either end is clamped.                  *)
(***************************************************************************)
SliceIndex(i, n) ==
  IF i < 0 THEN (IF i + n < 0 THEN 0 ELSE i + n)
  ELSE IF i > n THEN n ELSE i

SliceBetween(s, lo, hi) == IF lo < hi THEN SubSeq(s, lo + 1, hi) ELSE <<>>

Slice(s, start, stop) ==
  SliceBetween(s, SliceIndex(start, Len(s)), SliceIndex(stop, Len(s)))

SliceTo(s, stop) == SliceBetween(s, 0, SliceIndex(stop, Len(s)))

SliceFrom(s, start) == SliceBetween(s, SliceIndex(start, Len(s)), Len(s))

(***************************************************************************)
(* Program constants.                                                      *)
(***************************************************************************)
n_epochs == 200

val_interval == 5

ckpt_interval == 10

trained_unet_dir == "./trained_unet/"

trained_vae_weights == "./trained_vae//vae_epoch_100.pt"

\* The value of a name that no statement has bound yet.
Unbound == 0 - 1

(***************************************************************************)
(* Values the script computes with tensors are kept symbolically.          *)
(*   - A batch or a loss is named by the place that produced it: the       *)
(*     phase ("calib", "train", "val"), the epoch and the index of the     *)
(*     batch in its loader pass.                                           *)
(*   - A number accumulated from losses is the sequence of the losses      *)
(*     added, in order, over a divisor.                                    *)
(*   - The weights of a network are named by the file or initialiser they  *)
(*     come from and by the last training step that updated them.          *)
(***************************************************************************)
Id(phase, e, i) == [phase |-> phase, epoch |-> e, index |-> i]

NoId == Id("none", Unbound, Unbound)

Zero == [terms |-> <<>>, div |-> 1]

Plus(x, term) == [terms |-> Append(x.terms, term), div |-> x.div]

Div(x, n) == [terms |-> x.terms, div |-> x.div * n]

Weights(src) == [src |-> src, updated |-> NoId]

Update(w, id) == [src |-> w.src, updated |-> id]

\* len(DataLoader(Dataset(data), batch_size=batch_size)): drop_last is off.
NumBatches(data) == (Len(data) + batch_size - 1) \div batch_size

\* A calibration that takes every batch of the pass instead of the first.
FirstOfAllBatches(data, kind) ==
  [i \in 1..NumBatches(data) |-> Id(kind, Unbound, i - 1)]

\* monai.utils.first(loader): the first batches of a fresh pass, here one;
\* an empty loader yields no batch and first returns None.
First(data, kind) ==
  IF NumBatches(data) = 0 THEN <<>> ELSE <<Id(kind, Unbound, 0)>>

\* An optimizer that is handed the autoencoder's parameters too.
OptimizerParamsWithAutoencoder == {"unet", "autoencoderkl"}

\* The modules whose parameters line 140 hands to Adam.
OptimizerParams == {"unet"}

\* A checkpoint name that leaves the epoch number out.
CheckpointNameWithoutEpoch(e) == trained_unet_dir \o " + /unet_epoch.pt"

\* f'{trained_unet_dir} + /unet_epoch_{epoch + 1}.pt'
CheckpointName(e) ==
  trained_unet_dir \o " + /unet_epoch_" \o ToString(e + 1) \o ".pt"

\* A checkpoint test on the epoch index instead of the epoch number.
CheckpointDueOnIndex(e) == e % ckpt_interval = 0

CheckpointDue(e) == (e + 1) % ckpt_interval = 0

ValidationDue(e) == (e + 1) % val_interval = 0

VARIABLES pc, error, nFiles, geomodels_dataset, train_datalist, val_datalist,
          test_datalist, ae_weights, ae_mode, unet, unet_mode, grads,
          optimizer, opt_state, scaler, check_data, scale_factor, epoch,
          step, train_it, epoch_loss, epoch_losses, val_step, val_it,
          val_loss, val_losses, files, stdout

data_vars == <<nFiles, geomodels_dataset, train_datalist, val_datalist,
               test_datalist>>

model_vars == <<ae_weights, ae_mode, unet, unet_mode, grads, optimizer,
                opt_state, scaler, check_data, scale_factor>>

train_vars == <<epoch, step, train_it, epoch_loss, epoch_losses>>

val_vars == <<val_step, val_it, val_loss, val_losses, stdout>>

vars == <<pc, error, data_vars, model_vars, train_vars, val_vars, files>>

Init ==
  /\ pc = "load_dataset"
  /\ error = ""
  /\ nFiles \in 0..MaxFiles
  /\ geomodels_dataset = <<>>
  /\ train_datalist = <<>>
  /\ val_datalist = <<>>
  /\ test_datalist = <<>>
  /\ ae_weights = Weights("random_init")
  /\ ae_mode = "train"
  /\ unet = Weights("random_init")
  /\ unet_mode = "train"
  /\ grads = NoId
  /\ optimizer = {}
  /\ opt_state = NoId
  /\ scaler = NoId
  /\ check_data = <<>>
  /\ scale_factor = [recip_std_of |-> <<>>]
  /\ epoch = Unbound
  /\ step = Unbound
  /\ train_it = 0
  /\ epoch_loss = Zero
  /\ epoch_losses = <<>>
  /\ val_step = Unbound
  /\ val_it = 0
  /\ val_loss = Zero
  /\ val_losses = <<>>
  /\ files = <<>>
  /\ stdout = <<>>

N_data == Len(geomodels_dataset)

\* Lines 41-42: the directory listing, cut to its first 4000 entries.
LoadDataset ==
  /\ pc = "load_dataset"
  /\ geomodels_dataset' = SliceTo([i \in 1..nFiles |-> i], listing_cap)
  /\ pc' = "split"
  /\ UNCHANGED <<error, nFiles, train_datalist, val_datalist, test_datalist,
                 model_vars, train_vars, val_vars, files>>

\* Lines 49-56.
SplitDataset ==
  /\ pc = "split"
  /\ LET train == SliceTo(geomodels_dataset,
                          FloatToInt(FloatMulInt(N_data, train_split)))
     IN  /\ train_datalist' = train
         /\ val_datalist' =
              Slice(geomodels_dataset, Len(train),
                    FloatToInt(FloatMulInt(N_data,
                       FloatSub(FloatOfInt(1), test_split))) + 1)
         /\ test_datalist' =
              SliceFrom(geomodels_dataset,
                        FloatToInt(FloatMulInt(0 - N_data, test_split)))
  /\ pc' = "load_vae"
  /\ UNCHANGED <<error, nFiles, geomodels_dataset, model_vars, train_vars,
                 val_vars, files>>

\* Lines 100-123: the autoencoder takes the weights of its checkpoint file and
\* is put in evaluation mode; the U-net is built (a new module is in training
\* mode).
LoadAutoencoder ==
  /\ pc = "load_vae"
  /\ ae_weights' = Weights(trained_vae_weights)
  /\ ae_mode' = "eval"
  /\ pc' = "calibrate"
  /\ UNCHANGED <<error, data_vars, unet, unet_mode, grads, optimizer,
                 opt_state, scaler, check_data, scale_factor, train_vars,
                 val_vars, files>>

\* Lines 131-153: the scale factor from the first training batch, the inferer,
\* the optimizer, the empty histories.  With no training batch first() gives
\* None and check_data["image"] raises.
Calibrate ==
  /\ pc = "calibrate"
  /\ check_data' = First(train_datalist, "calib")
  /\ IF check_data' = <<>>
     THEN /\ pc' = "error"
          /\ error' = "TypeError: 'NoneType' object is not subscriptable"
          /\ UNCHANGED <<scale_factor, optimizer>>
     ELSE /\ pc' = "epoch"
          /\ scale_factor' = [recip_std_of |-> check_data']
          /\ optimizer' = OptimizerParams
          /\ UNCHANGED error
  /\ UNCHANGED <<data_vars, ae_weights, ae_mode, unet, unet_mode, grads,
                 opt_state, scaler, train_vars, val_vars, files>>

\* An epoch start that does not reset epoch_loss.
EpochStartKeepingLoss ==
  /\ pc = "epoch"
  /\ epoch + 1 < n_epochs
  /\ epoch' = epoch + 1
  /\ unet_mode' = "train"
  /\ ae_mode' = "eval"
  /\ train_it' = 0
  /\ pc' = "batch"
  /\ UNCHANGED <<error, data_vars, ae_weights, unet, grads, optimizer,
                 opt_state, scaler, check_data, scale_factor, step,
                 epoch_loss, epoch_losses, val_vars, files>>

\* An epoch start that does not put the U-net back in training mode.
EpochStartLeavingMode ==
  /\ pc = "epoch"
  /\ epoch + 1 < n_epochs
  /\ epoch' = epoch + 1
  /\ ae_mode' = "eval"
  /\ epoch_loss' = Zero
  /\ train_it' = 0
  /\ pc' = "batch"
  /\ UNCHANGED <<error, data_vars, ae_weights, unet, unet_mode, grads,
                 optimizer, opt_state, scaler, check_data, scale_factor, step,
                 epoch_losses, val_vars, files>>

\* Lines 155-160: the next epoch begins.
EpochStart ==
  /\ pc = "epoch"
  /\ epoch + 1 < n_epochs
  /\ epoch' = epoch + 1
  /\ unet_mode' = "train"
  /\ ae_mode' = "eval"
  /\ epoch_loss' = Zero
  /\ train_it' = 0
  /\ pc' = "batch"
  /\ UNCHANGED <<error, data_vars, ae_weights, unet, grads, optimizer,
                 opt_state, scaler, check_data, scale_factor, step,
                 epoch_losses, val_vars, files>>

\* A batch loop whose body holds the checkpoint statement (lines 182-183
\* indented one level deeper).
BatchTrainSaving ==
  /\ pc = "batch"
  /\ train_it < NumBatches(train_datalist)
  /\ LET id == Id("train", epoch, train_it)
     IN  /\ step' = train_it
         /\ grads' = id
         /\ unet' = IF "unet" \in optimizer THEN Update(unet, id) ELSE unet
         /\ ae_weights' = IF "autoencoderkl" \in optimizer
                          THEN Update(ae_weights, id) ELSE ae_weights
         /\ opt_state' = id
         /\ scaler' = id
         /\ epoch_loss' = Plus(epoch_loss, id)
  /\ files' = IF CheckpointDue(epoch)
              THEN [f \in DOMAIN files \cup {CheckpointName(epoch)} |->
                      IF f = CheckpointName(epoch) THEN unet' ELSE files[f]]
              ELSE files
  /\ train_it' = train_it + 1
  /\ UNCHANGED <<pc, error, data_vars, ae_mode, unet_mode, optimizer,
                 check_data, scale_factor, epoch, epoch_losses, val_vars>>

\* Lines 161-180: one training batch.  scaler.step(optimizer) acts on the
\* parameters the optimizer holds, and on no other.
BatchTrain ==
  /\ pc = "batch"
  /\ train_it < NumBatches(train_datalist)
  /\ LET id == Id("train", epoch, train_it)
     IN  /\ step' = train_it
         /\ grads' = id
         /\ unet' = IF "unet" \in optimizer THEN Update(unet, id) ELSE unet
         /\ ae_weights' = IF "autoencoderkl" \in optimizer
                          THEN Update(ae_weights, id) ELSE ae_weights
         /\ opt_state' = id
         /\ scaler' = id
         /\ epoch_loss' = Plus(epoch_loss, id)
  /\ train_it' = train_it + 1
  /\ UNCHANGED <<pc, error, data_vars, ae_mode, unet_mode, optimizer,
                 check_data, scale_factor, epoch, epoch_losses, val_vars,
                 files>>

\* Line 181: the epoch's mean loss; step is the name the batch loop bound.
EpochEnd ==
  /\ pc = "batch"
  /\ train_it >= NumBatches(train_datalist)
  /\ IF step = Unbound
     THEN /\ pc' = "error"
          /\ error' = "NameError: name 'step' is not defined"
          /\ UNCHANGED epoch_losses
     ELSE /\ pc' = "checkpoint"
          /\ epoch_losses' = Append(epoch_losses, Div(epoch_loss, step + 1))
          /\ UNCHANGED error
  /\ UNCHANGED <<data_vars, model_vars, epoch, step, train_it, epoch_loss,
                 val_vars, files>>

\* Lines 182-183: torch.save writes the file of that name, new or not.
Checkpoint ==
  /\ pc = "checkpoint"
  /\ files' = IF CheckpointDue(epoch)
              THEN [f \in DOMAIN files \cup {CheckpointName(epoch)} |->
                      IF f = CheckpointName(epoch) THEN unet ELSE files[f]]
              ELSE files
  /\ pc' = "validate"
  /\ UNCHANGED <<error, data_vars, model_vars, train_vars, val_vars>>

\* Lines 185-188: a validation pass begins, or the epoch is over.
ValidateStart ==
  /\ pc = "validate"
  /\ IF ValidationDue(epoch)
     THEN /\ unet_mode' = "eval"
          /\ val_loss' = Zero
          /\ val_it' = 0
          /\ pc' = "val_batch"
     ELSE /\ pc' = "epoch"
          /\ UNCHANGED <<unet_mode, val_loss, val_it>>
  /\ UNCHANGED <<error, data_vars, ae_weights, ae_mode, unet, grads,
                 optimizer, opt_state, scaler, check_data, scale_factor,
                 train_vars, val_step, val_losses, stdout, files>>

\* A validation batch that backpropagates and steps the optimizer.
ValBatchStepping ==
  /\ pc = "val_batch"
  /\ val_it < NumBatches(val_datalist)
  /\ LET id == Id("val", epoch, val_it)
     IN  /\ grads' = id
         /\ unet' = IF "unet" \in optimizer THEN Update(unet, id) ELSE unet
         /\ opt_state' = id
         /\ scaler' = id
         /\ val_loss' = Plus(val_loss, id)
  /\ val_step' = val_it + 1
  /\ val_it' = val_it + 1
  /\ UNCHANGED <<pc, error, data_vars, ae_weights, ae_mode, unet_mode,
                 optimizer, check_data, scale_factor, train_vars, val_losses,
                 stdout, files>>

\* Lines 189-210: one validation batch, under torch.no_grad().
ValBatch ==
  /\ pc = "val_batch"
  /\ val_it < NumBatches(val_datalist)
  /\ val_step' = val_it + 1
  /\ val_loss' = Plus(val_loss, Id("val", epoch, val_it))
  /\ val_it' = val_it + 1
  /\ UNCHANGED <<pc, error, data_vars, model_vars, train_vars, val_losses,
                 stdout, files>>

\* Lines 211-213: the mean validation loss, logged and printed.
ValEnd ==
  /\ pc = "val_batch"
  /\ val_it >= NumBatches(val_datalist)
  /\ IF val_step = Unbound
     THEN /\ pc' = "error"
          /\ error' = "NameError: name 'val_step' is not defined"
          /\ UNCHANGED <<val_loss, val_losses, stdout>>
     ELSE /\ pc' = "epoch"
          /\ val_loss' = Div(val_loss, val_step)
          /\ val_losses' = Append(val_losses, val_loss')
          /\ stdout' = Append(stdout, [epoch |-> epoch, val_loss |-> val_loss'])
          /\ UNCHANGED error
  /\ UNCHANGED <<data_vars, model_vars, train_vars, val_step, val_it, files>>

\* Line 214: range(n_epochs) is exhausted.
Finish ==
  /\ pc = "epoch"
  /\ epoch + 1 >= n_epochs
  /\ pc' = "done"
  /\ UNCHANGED <<error, data_vars, model_vars, train_vars, val_vars, files>>

Next ==
  \/ LoadDataset
  \/ SplitDataset
  \/ LoadAutoencoder
  \/ Calibrate
  \/ EpochStart
  \/ BatchTrain
  \/ EpochEnd
  \/ Checkpoint
  \/ ValidateStart
  \/ ValBatch
  \/ ValEnd
  \/ Finish

Spec == Init /\ [][Next]_vars

(***************************************************************************)
(* Notions the properties share.                                           *)
(***************************************************************************)
Range(s) == {s[i] : i \in DOMAIN s}

Startup == {"load_dataset", "split", "load_vae", "calibrate"}

Epochs == 0..(n_epochs - 1)

\* Line 181 has run for epoch e.
Trained(e) == e < epoch \/ (e = epoch /\ pc # "batch")

\* Lines 182-183 have run for epoch e.
PastCheckpoint(e) == e < epoch \/ (e = epoch /\ pc \notin {"batch", "checkpoint"})

\* Lines 185-213 have run for epoch e.
Ended(e) == e < epoch \/ (e = epoch /\ pc \in {"epoch", "done"})

\* The epochs at whose end a checkpoint still on disk was written, and the
\* epochs whose validation pass has printed its line.
CheckpointEpochs == {files[f].updated.epoch : f \in DOMAIN files}

ValidatedEpochs == {stdout[i].epoch : i \in DOMAIN stdout}

\* The mean of the losses of the n batches of one pass of a loader.
MeanOfPass(kind, e, n) ==
  [terms |-> [i \in 1..n |-> Id(kind, e, i - 1)], div |-> n]

(***************************************************************************)
(* C1: the three lists of the split are pairwise disjoint and their sizes  *)
(* add up to the number of listed files, give or take one.                 *)
(***************************************************************************)
C1_DisjointSplit ==
  pc \notin {"load_dataset", "split"} =>
    LET total == Len(train_datalist) + Len(val_datalist) + Len(test_datalist)
    IN  /\ Range(train_datalist) \cap Range(val_datalist) = {}
        /\ Range(train_datalist) \cap Range(test_datalist) = {}
        /\ Range(val_datalist) \cap Range(test_datalist) = {}
        /\ total - N_data \in {0 - 1, 0, 1}

(***************************************************************************)
(* C2: a checkpoint is written at the end of epoch e exactly when          *)
(* (e + 1) % 10 = 0, and a validation pass runs at the end of epoch e      *)
(* exactly when (e + 1) % 5 = 0.                                           *)
(***************************************************************************)
C2_Schedule ==
  /\ CheckpointEpochs = {e \in Epochs : PastCheckpoint(e) /\ (e + 1) % 10 = 0}
  /\ ValidatedEpochs = {e \in Epochs : Ended(e) /\ (e + 1) % 5 = 0}
  /\ Len(val_losses) = Cardinality(ValidatedEpochs)

\* Twelve epochs are over: one checkpoint, after epoch number 10, and two
\* validation passes, after epoch numbers 5 and 10.
C2_Witness ==
  /\ pc = "epoch"
  /\ epoch = 11
  /\ CheckpointEpochs = {9}
  /\ ValidatedEpochs = {4, 9}

(***************************************************************************)
(* C3: once loaded, the autoencoder's weights stay those of its checkpoint *)
(* file: the optimizer holds the U-net's parameters only, and only the     *)
(* U-net is updated.                                                       *)
(***************************************************************************)
C3_AutoencoderFrozen ==
  pc \notin {"load_dataset", "split", "load_vae"} =>
    /\ ae_weights = Weights(trained_vae_weights)
    /\ optimizer \subseteq {"unet"}

\* The run is over, the U-net has been trained, the autoencoder has not.
C3_Witness ==
  /\ pc = "done"
  /\ unet.updated = Id("train", n_epochs - 1, NumBatches(train_datalist) - 1)
  /\ ae_weights = Weights(trained_vae_weights)

(***************************************************************************)
(* C4: the scale factor is computed once, before the first epoch, from one *)
(* batch of the training loader, and the value the inferer holds is the    *)
(* same in every later state.                                              *)
(***************************************************************************)
C4_ScaleFactorOnce ==
  /\ pc \in Startup => scale_factor.recip_std_of = <<>>
  /\ pc \notin Startup \cup {"error"} =>
       /\ Len(scale_factor.recip_std_of) = 1
       /\ scale_factor.recip_std_of = <<Id("calib", Unbound, 0)>>
       /\ scale_factor.recip_std_of = check_data

\* Deep in the run, with two batches an epoch and a validation pass behind.
C4_Witness ==
  /\ pc = "batch"
  /\ epoch = 7
  /\ train_it = 2
  /\ Len(val_losses) = 1
  /\ Len(scale_factor.recip_std_of) = 1

(***************************************************************************)
(* C5: whatever the number of files below 4000, small or none, the run     *)
(* raises no error.                                                        *)
(***************************************************************************)
C5_NoErrorOnSmallDataset == nFiles < listing_cap => pc # "error"

(***************************************************************************)
(* C6: the checkpoint files are append-only: a file's name embeds the      *)
(* number of the epoch it was written after, different epochs give         *)
(* different names, and no step changes or removes a file written earlier. *)
(***************************************************************************)
C6_CheckpointsAppendOnly ==
  [][/\ \A f \in DOMAIN files : f \in DOMAIN files' /\ files'[f] = files[f]
     /\ \A f \in DOMAIN files' : f = CheckpointName(files'[f].updated.epoch)
     /\ files' # files =>
          \A e \in Epochs : e # epoch => CheckpointName(e) # CheckpointName(epoch)
    ]_vars

\* A second checkpoint has been written beside the first.
C6_Witness ==
  /\ pc = "validate"
  /\ epoch = 19
  /\ DOMAIN files = {CheckpointName(9), CheckpointName(19)}
  /\ files[CheckpointName(9)] # files[CheckpointName(19)]

(***************************************************************************)
(* C7: the accumulators carry nothing from one epoch to the next: the      *)
(* entry of epoch_losses for an epoch is the sum of that epoch's batch     *)
(* losses over its number of training batches, the entry of val_losses for *)
(* a pass the sum of that pass's batch losses over its number of           *)
(* validation batches, one entry an epoch and one a pass.                  *)
(***************************************************************************)
C7_LossHistories ==
  /\ Len(epoch_losses) = Cardinality({e \in Epochs : Trained(e)})
  /\ \A i \in DOMAIN epoch_losses :
       epoch_losses[i] = MeanOfPass("train", i - 1, NumBatches(train_datalist))
  /\ Len(val_losses) = Len(stdout)
  /\ Len(val_losses) = Cardinality({e \in Epochs : Ended(e) /\ (e + 1) % 5 = 0})
  /\ \A j \in DOMAIN val_losses :
       val_losses[j] =
         MeanOfPass("val", stdout[j].epoch, NumBatches(val_datalist))
  /\ pc = "batch" =>
       epoch_loss = [terms |-> [i \in 1..train_it |-> Id("train", epoch, i - 1)],
                     div |-> 1]
  /\ pc = "val_batch" =>
       val_loss = [terms |-> [i \in 1..val_it |-> Id("val", epoch, i - 1)],
                   div |-> 1]

\* Epochs of two training batches and passes of two validation batches.
C7_Witness ==
  /\ pc = "done"
  /\ NumBatches(train_datalist) > 1
  /\ NumBatches(val_datalist) > 1
  /\ Len(epoch_losses) = n_epochs
  /\ Len(val_losses) = n_epochs \div val_interval

(***************************************************************************)
(* C8: in every epoch the phases come in the order start, training         *)
(* batches, checkpoint, validation, end.  A checkpoint is written only     *)
(* when all training batches of its epoch are done and its validation pass *)
(* has not begun, so that in whatever state the process is stopped, no     *)
(* file holds the weights of a partly trained epoch.                       *)
(***************************************************************************)
PhaseOrder ==
  { <<"epoch", "batch">>, <<"batch", "checkpoint">>,
    <<"checkpoint", "validate">>, <<"validate", "val_batch">>,
    <<"validate", "epoch">>, <<"val_batch", "epoch">>, <<"epoch", "done">> }

WholeEpochsOnDisk ==
  \A f \in DOMAIN files :
    files[f].updated.index = NumBatches(train_datalist) - 1

C8_CheckpointAfterWholeEpoch ==
  [][/\ WholeEpochsOnDisk'
     /\ files' # files =>
          /\ train_it = NumBatches(train_datalist)
          /\ unet.updated = Id("train", epoch, NumBatches(train_datalist) - 1)
          /\ Len(epoch_losses) = epoch + 1
          /\ epoch \notin ValidatedEpochs
          /\ unet_mode = "train"
     /\ pc \notin Startup /\ pc' # pc /\ pc' # "error"
          => <<pc, pc'>> \in PhaseOrder
    ]_vars

\* A checkpoint of an epoch of two batches is on disk.
C8_Witness ==
  /\ pc = "validate"
  /\ epoch = 9
  /\ NumBatches(train_datalist) = 2
  /\ files[CheckpointName(9)].updated = Id("train", 9, 1)

(***************************************************************************)
(* C9: a validation pass leaves the U-net's parameters, the gradients, the *)
(* optimizer state and the loss scaler as they were; it adds one entry to  *)
(* val_losses and prints one line.                                         *)
(***************************************************************************)
InValidation == pc = "val_batch" \/ (pc = "validate" /\ ValidationDue(epoch))

C9_ValidationTrainsNothing ==
  [][InValidation =>
       /\ unet' = unet
       /\ grads' = grads
       /\ opt_state' = opt_state
       /\ scaler' = scaler
       /\ optimizer' = optimizer
       /\ ae_weights' = ae_weights
       /\ IF pc' = "epoch"
          THEN /\ Len(val_losses') = Len(val_losses) + 1
               /\ Len(stdout') = Len(stdout) + 1
          ELSE /\ val_losses' = val_losses
               /\ stdout' = stdout
    ]_vars

\* A pass of two batches has just ended, after training.
C9_Witness ==
  /\ pc = "epoch"
  /\ epoch = 4
  /\ val_step = 2
  /\ Len(val_losses) = 1
  /\ unet.updated = Id("train", 4, NumBatches(train_datalist) - 1)

(***************************************************************************)
(* C10: every optimizer step is taken with the U-net in training mode and  *)
(* the autoencoder in evaluation mode: a validation pass leaves the U-net  *)
(* in evaluation mode, the next epoch's start restores training mode       *)
(* before its first batch, and the autoencoder is in evaluation mode in    *)
(* every state after loading.                                              *)
(***************************************************************************)
C10_Modes ==
  [][/\ opt_state' # opt_state \/ unet' # unet =>
          unet_mode = "train" /\ ae_mode = "eval"
     /\ pc' = "batch" => unet_mode' = "train"
     /\ pc = "val_batch" /\ pc' = "epoch" => unet_mode' = "eval"
     /\ pc' \notin {"load_dataset", "split", "load_vae"} => ae_mode' = "eval"
    ]_vars

\* The first batch of the epoch after a validation pass has been trained.
C10_Witness ==
  /\ pc = "batch"
  /\ epoch = 5
  /\ opt_state = Id("train", 5, 0)
  /\ Len(val_losses) = 1
  /\ unet_mode = "train"
====
